---- MODULE Spec2Model ----
(***************************************************************************)
(* A model of the site service (include/service/entities/site_service.js)  *)
(* and of the new-article admin controller.                                *)
(*                                                                         *)
(* JavaScript values are modelled as strings and naturals.  A string of    *)
(* the program is a sequence of one-character strings, so that             *)
(* toLowerCase and the regular-expression match are computed, not assumed. *)
(***************************************************************************)
EXTENDS Naturals, Sequences, FiniteSets, TLC

\* ------------------------------------------------------------------ bounds
\* Number of createSite calls in one behaviour.
MaxCreates == 2

\* ------------------------------------------------------------- JS values
Undefined == "<undefined>"
Null == "<null>"
EmptyString == ""
\* SiteService.GLOBAL_SITE
GLOBAL_SITE == "global"
\* The absence of an error argument (null or undefined err).
NoError == "<no error>"
\* An error raised by the persistence layer.
DbError == "Error: db"

\* !v for the id values of the model.
IsFalsy(v) == v \in {Undefined, Null, EmptyString}

\* ---------------------------------------------------------------- strings
ToLowerChar(c) ==
    CASE c = "A" -> "a"
      [] c = "B" -> "b"
      [] c = "X" -> "x"
      [] c = "Y" -> "y"
      [] OTHER -> c

\* String.prototype.toLowerCase
ToLowerCase(s) == [i \in DOMAIN s |-> ToLowerChar(s[i])]

\* new RegExp('^' + escapeRegExp(p) + '$', 'i').test(s): p is matched
\* literally (it is escaped), anchored at both ends, ignoring case.
RegExpAnchoredIgnoreCase(p, s) ==
    /\ Len(p) = Len(s)
    /\ \A i \in DOMAIN p : ToLowerChar(p[i]) = ToLowerChar(s[i])

\* Two strings equal ignoring case.
EqualIgnoreCase(s, t) == ToLowerCase(s) = ToLowerCase(t)

\* The display names and hostnames callers pass.
DisplayNames == { <<"A", "b">>, <<"a", "B">>, <<"b">> }
Hostnames == { <<"X">>, <<"y">> }

\* The site objects callers pass to createSite: every display name with
\* every hostname, some carrying active = true and some active = false.
SiteInputs ==
    { [displayName |-> dn, hostname |-> hn,
       active |-> ((Len(dn) = 2) = (hn = <<"X">>))] :
         dn \in DisplayNames, hn \in Hostnames }

\* --------------------------------------------------------------- variables
VARIABLES
    sites,      \* the 'site' collection: a sequence of documents
    nextUid,    \* pb.util.uniqueId: the number of ids handed out
    creates,    \* the createSite calls: a sequence of call records
    handlers,   \* per process: the handler registered for each command type
    registry,   \* per process: the Routing Registry, a set of entries
    jobs,       \* the jobs run so far, by <<job id, process>>
    commands,   \* the commands broadcast so far, by <<job id, receiver>>
    responses,  \* the responses sent, by the command each is keyed to
    traffic,    \* the start/stopAcceptingSiteTraffic calls: a sequence
    maps,       \* the getSiteMap calls: a sequence
    lookups,    \* the getByUid calls: a sequence
    inits,      \* the initSites calls: a sequence
    pages,      \* the new-article requests: a sequence
    globals,    \* the controller's implicit globals
    evals       \* the areEqual and getCurrentSite calls made, with results

createVars == <<nextUid, creates>>
clusterVars == <<handlers, registry, jobs, commands, responses>>
callVars == <<traffic, maps, lookups, inits, pages, globals, evals>>
vars == <<sites, nextUid, creates, handlers, registry, jobs, commands,
          responses, traffic, maps, lookups, inits, pages, globals, evals>>

\* The processes of the cluster.
Nodes == {"n1", "n2"}

\* The command types of the channel.
CommandTypes == {"activate_site", "deactivate_site"}

\* The function with no argument: no job, no command.
None == [k \in {} |-> 0]

\* No handler registered for any type (SiteService.init has not run).
NoHandlers == [t \in CommandTypes |-> "none"]

\* The controller's globals before any request assigned them.
NoGlobals == [availableTemplates |-> <<>>, templatesList |-> <<>>]

\* No areEqual or getCurrentSite call made yet.
NoEvals == [equal |-> {}, current |-> {}]

\* ------------------------------------------------------------ persistence
\* No id to exclude (createSite's id argument left out).
NoId == 0

UidNames == <<"u1", "u2", "u3", "u4", "u5">>

\* getUid(): pb.util.uniqueId() gives an id never given before.
getUid(n) == UidNames[n + 1]

\* getWhere: the where clause excludes the document whose _id is id, when
\* id is given.
getWhere(doc, id) == id = NoId \/ doc._id # id

\* The displayName task's where clause.
DisplayNameWhere(doc, displayName, id) ==
    /\ RegExpAnchoredIgnoreCase(ToLowerCase(displayName), doc.displayName)
    /\ getWhere(doc, id)

\* The hostname task's where clause.
HostnameWhere(doc, hostname, id) ==
    /\ doc.hostname = ToLowerCase(hostname)
    /\ getWhere(doc, id)

\* dao.count(collection, where) for the two where clauses.
CountDisplayName(coll, displayName, id) ==
    Cardinality({k \in DOMAIN coll : DisplayNameWhere(coll[k], displayName, id)})

CountHostname(coll, hostname, id) ==
    Cardinality({k \in DOMAIN coll : HostnameWhere(coll[k], hostname, id)})

\* dao.save(site) of a new document: the DAO gives it the next _id.
DaoSaveNew(coll, site) ==
    Append(coll, [_id |-> Len(coll) + 1, uid |-> site.uid,
                  displayName |-> site.displayName,
                  hostname |-> site.hostname, active |-> site.active])

\* -------------------------------------------------- uniqueness validator
\* A count not yet (or never) reported in async.parallel's results.
Absent == 99

\* A validator that looks at the displayName count only.
IsTakenOfDisplayNameOnly(cntD, cntH) ==
    IF cntD # Absent /\ cntD > 0 THEN 1 ELSE 0

\* isDisplayNameOrHostnameTaken's callback: result starts as
\* (results === null), false here, and is or-ed bitwise with
\* (results[key] > 0) for each key; an absent count compares false.
\* The value is a JS number once a key was visited: 0 or 1.
IsTakenOf(cntD, cntH) ==
    IF (cntD # Absent /\ cntD > 0) \/ (cntH # Absent /\ cntH > 0) THEN 1 ELSE 0

\* ------------------------------------------------------------- createSite
\* A createSite that keeps the caller's active flag.
NewSiteNoForce(site, uid) == [site EXCEPT !.uid = uid]

\* createSite's first two statements: active is forced to false and a
\* fresh uid is assigned.
NewSite(site, uid) == [site EXCEPT !.active = FALSE, !.uid = uid]

\* createSite(site, id, cb): the call itself, which starts the two counts.
CreateSiteCall(input, id) ==
    /\ Len(creates) < MaxCreates
    /\ creates' = Append(creates,
          [site |-> NewSite([displayName |-> input.displayName,
                             hostname |-> input.hostname,
                             active |-> input.active, uid |-> Undefined],
                            getUid(nextUid)),
           inputActive |-> input.active, id |-> id, pc |-> "counting",
           cntD |-> Absent, cntH |-> Absent,
           collided |-> \E k \in DOMAIN sites :
                           /\ getWhere(sites[k], id)
                           /\ \/ EqualIgnoreCase(sites[k].displayName,
                                                 input.displayName)
                              \/ sites[k].hostname = input.hostname,
           isTaken |-> Absent,
           cbCalls |-> 0, cbErr |-> NoError, cbIsTaken |-> 0,
           cbResult |-> NoId, writes |-> 0])
    /\ nextUid' = nextUid + 1
    /\ UNCHANGED <<sites, clusterVars, callVars>>

\* async.parallel's final callback, run by the task that completes last or
\* fails first: isDisplayNameOrHostnameTaken's callback and then
\* createSite's.
Validated(c, err, cntD, cntH) ==
    LET isTaken == IsTakenOf(cntD, cntH) IN
    IF err # NoError \/ isTaken # 0
    THEN [c EXCEPT !.pc = "done", !.cntD = cntD, !.cntH = cntH,
                   !.isTaken = isTaken,
                   !.cbCalls = @ + 1, !.cbErr = err, !.cbIsTaken = isTaken,
                   !.cbResult = NoId]
    ELSE [c EXCEPT !.pc = "saving", !.cntD = cntD, !.cntH = cntH,
                   !.isTaken = isTaken]

\* The displayName count returns.
CreateCountDisplayName(i, ok) ==
    /\ i \in DOMAIN creates
    /\ creates[i].pc = "counting"
    /\ creates[i].cntD = Absent
    /\ LET c == creates[i]
           n == CountDisplayName(sites, c.site.displayName, c.id)
       IN creates' = [creates EXCEPT ![i] =
              IF ~ok THEN Validated(c, DbError, Absent, c.cntH)
              ELSE IF c.cntH # Absent THEN Validated(c, NoError, n, c.cntH)
              ELSE [c EXCEPT !.cntD = n]]
    /\ UNCHANGED <<sites, nextUid, clusterVars, callVars>>

\* The hostname count returns.
CreateCountHostname(i, ok) ==
    /\ i \in DOMAIN creates
    /\ creates[i].pc = "counting"
    /\ creates[i].cntH = Absent
    /\ LET c == creates[i]
           n == CountHostname(sites, c.site.hostname, c.id)
       IN creates' = [creates EXCEPT ![i] =
              IF ~ok THEN Validated(c, DbError, c.cntD, Absent)
              ELSE IF c.cntD # Absent THEN Validated(c, NoError, c.cntD, n)
              ELSE [c EXCEPT !.cntH = n]]
    /\ UNCHANGED <<sites, nextUid, clusterVars, callVars>>

\* dao.save returns: the document is written, or the save failed.
CreateSave(i, ok) ==
    /\ i \in DOMAIN creates
    /\ creates[i].pc = "saving"
    /\ LET c == creates[i] IN
       IF ok
       THEN /\ sites' = DaoSaveNew(sites, c.site)
            /\ creates' = [creates EXCEPT ![i] =
                  [c EXCEPT !.pc = "done", !.cbCalls = @ + 1,
                            !.cbErr = NoError, !.cbIsTaken = 0,
                            !.cbResult = Len(sites) + 1, !.writes = @ + 1]]
       ELSE /\ sites' = sites
            /\ creates' = [creates EXCEPT ![i] =
                  [c EXCEPT !.pc = "done", !.cbCalls = @ + 1,
                            !.cbErr = DbError, !.cbIsTaken = 0,
                            !.cbResult = NoId]]
    /\ UNCHANGED <<nextUid, clusterVars, callVars>>

\* The state at process start, before any site exists.
InitCreate ==
    /\ sites = <<>>
    /\ nextUid = 0
    /\ creates = <<>>
    /\ handlers = [n \in Nodes |-> NoHandlers]
    /\ registry = [n \in Nodes |-> {}]
    /\ jobs = None
    /\ commands = None
    /\ responses = None
    /\ traffic = <<>>
    /\ maps = <<>>
    /\ lookups = <<>>
    /\ inits = <<>>
    /\ pages = <<>>
    /\ globals = NoGlobals
    /\ evals = NoEvals

NextCreate ==
    \/ \E input \in SiteInputs, id \in {NoId} \cup DOMAIN sites :
          CreateSiteCall(input, id)
    \/ \E i \in 1..MaxCreates, ok \in BOOLEAN : CreateCountDisplayName(i, ok)
    \/ \E i \in 1..MaxCreates, ok \in BOOLEAN : CreateCountHostname(i, ok)
    \/ \E i \in 1..MaxCreates, ok \in BOOLEAN : CreateSave(i, ok)

SpecCreate == InitCreate /\ [][NextCreate]_vars

\* ------------------------------------------------------ claims: createSite
\* C1: a createSite call whose displayName matches an existing site's in any
\* letter case, or whose hostname matches an existing site's hostname,
\* reports the collision (isTaken truthy, no saved result) and writes
\* nothing.  The existing site is one the id argument does not exclude, and
\* the case is the one where no query failed.
C1_CollisionReportedNoWrite ==
    \A i \in DOMAIN creates :
        creates[i].collided =>
            /\ creates[i].pc # "saving"
            /\ creates[i].writes = 0
            /\ (creates[i].pc = "done" /\ creates[i].cbErr = NoError) =>
                   (creates[i].cbIsTaken # 0 /\ creates[i].cbResult = NoId)

\* C2: no two persisted sites have displayNames equal ignoring case, and no
\* two have hostnames equal ignoring case (createSite called without an id
\* to exclude).
C2_CaseInsensitiveUnique ==
    (\A i \in DOMAIN creates : creates[i].id = NoId) =>
        \A j, k \in DOMAIN sites :
            j # k =>
                /\ ~EqualIgnoreCase(sites[j].displayName, sites[k].displayName)
                /\ ~EqualIgnoreCase(sites[j].hostname, sites[k].hostname)

\* C3: every document a step adds to the site collection has active = false,
\* whatever active the caller's object carried.
C3_CreatedInactive ==
    [][\A k \in DOMAIN sites' :
          k \notin DOMAIN sites => sites'[k].active = FALSE]_vars

\* C3's case: a site was saved whose input carried active = true.
C3_Witness ==
    \E i \in DOMAIN creates :
        /\ creates[i].inputActive
        /\ creates[i].cbResult # NoId
        /\ sites[creates[i].cbResult].active = FALSE

\* C18: when both counting queries have returned their counts, the value
\* isDisplayNameOrHostnameTaken hands to its callback is truthy (the number
\* 1) exactly when the displayName count or the hostname count is greater
\* than zero, and falsy (the number 0) when both counts are zero.
C18_TakenIffSomeCountPositive ==
    \A i \in DOMAIN creates :
        LET c == creates[i] IN
        (c.isTaken # Absent /\ c.cntD # Absent /\ c.cntH # Absent) =>
            /\ c.isTaken \in {0, 1}
            /\ (c.isTaken = 1) <=> (c.cntD > 0 \/ c.cntH > 0)
            /\ (c.cntD = 0 /\ c.cntH = 0) => c.isTaken = 0

\* C18's case: the validator reported a collision on the hostname count
\* alone, and reported none for a call whose counts were both zero.
C18_Witness ==
    /\ \E i \in DOMAIN creates :
          /\ creates[i].cntD = 0 /\ creates[i].cntH # Absent
          /\ creates[i].cntH > 0 /\ creates[i].isTaken = 1
    /\ \E i \in DOMAIN creates :
          /\ creates[i].cntD = 0 /\ creates[i].cntH = 0
          /\ creates[i].isTaken = 0

\* ------------------------------------------------------- Routing Registry
\* pb.RequestHandler keeps one entry per hostname: registering a site
\* replaces the entry of its hostname.
RegisterSite(reg, site, active) ==
    {e \in reg : e.hostname # site.hostname}
        \cup {[hostname |-> site.hostname, uid |-> site.uid,
               active |-> active]}

\* RequestHandler.loadSite(site): the entry takes the site's own flag.
RegLoadSite(reg, site) == RegisterSite(reg, site, site.active)

\* RequestHandler.activateSite(site): user-facing routes on.
RegActivateSite(reg, site) == RegisterSite(reg, site, TRUE)

\* RequestHandler.deactivateSite(site): admin routes only.
RegDeactivateSite(reg, site) == RegisterSite(reg, site, FALSE)

\* ------------------------------------------------------------ site lookup
\* The positions of the documents with this uid.
IndicesOfUid(coll, uid) == {k \in DOMAIN coll : coll[k].uid = uid}

\* dao.loadByValue('uid', uid, 'site'): a position, or 0 for no document.
LoadByUid(coll, uid) ==
    IF IndicesOfUid(coll, uid) = {} THEN 0
    ELSE CHOOSE k \in IndicesOfUid(coll, uid) :
            \A m \in IndicesOfUid(coll, uid) : k <= m

\* ------------------------------------------------------------------- jobs
\* Number of activateSite and deactivateSite calls in one behaviour.
MaxJobs == 2

\* The uids callers and commands name: a persisted site and a uid with no
\* document.
JobUids == {"u1", "nosuch"}

\* The job's name: util.format("ACTIVATE_SITE_%s", uid) and
\* util.format("DEACTIVATE_SITE_%s", uid).
JobName(kind, uid) ==
    IF kind = "activate" THEN <<"ACTIVATE_SITE_", uid>>
    ELSE <<"DEACTIVATE_SITE_", uid>>

\* The command type a job of each kind broadcasts.
CommandTypeOf(kind) ==
    IF kind = "activate" THEN "activate_site" ELSE "deactivate_site"

\* The value a job of each kind writes to the active flag.
TargetActive(kind) == kind = "activate"

\* The jobs started by activateSite and deactivateSite.
Initiated(js) == {k \in DOMAIN js : js[k].runAsInitiator}

\* job.init(name) with no id generates one never used before.
NewJobId(js) == Cardinality(Initiated(js)) + 1

\* No command: the job was not started by a command handler.
NoCommand == <<0, "none">>

\* A job as constructed, initialised and started by job.run(cb).
NewJob(kind, uid, node, initiator, id, cmd) ==
    [kind |-> kind, name |-> JobName(kind, uid), id |-> id, site |-> uid,
     node |-> node, runAsInitiator |-> initiator, command |-> cmd,
     pc |-> "loading", cbCalls |-> 0, cbErr |-> NoError,
     cbResult |-> FALSE, wrote |-> FALSE, registered |-> FALSE,
     overlap |-> initiator /\ \E j \in Initiated(jobs) : jobs[j].pc # "done"]

\* activateSite(siteUid, cb) and deactivateSite(siteUid, cb): the job they
\* start runs as initiator under a generated id.
StartedBy(kind, uid, node) ==
    NewJob(kind, uid, node, TRUE, NewJobId(jobs), NoCommand)

ActivateSite(node, uid) ==
    /\ Cardinality(Initiated(jobs)) < MaxJobs
    /\ jobs' = (<<NewJobId(jobs), node>> :> StartedBy("activate", uid, node))
                   @@ jobs
    /\ UNCHANGED <<sites, createVars, callVars, handlers, registry, commands,
                   responses>>

DeactivateSite(node, uid) ==
    /\ Cardinality(Initiated(jobs)) < MaxJobs
    /\ jobs' = (<<NewJobId(jobs), node>> :> StartedBy("deactivate", uid, node))
                   @@ jobs
    /\ UNCHANGED <<sites, createVars, callVars, handlers, registry, commands,
                   responses>>

SiteNotFound == "Error: Site not found"

\* err.stack: the error's message followed by its stack, as one string.
Stack(err) ==
    CASE err = DbError -> "Error: db\n    at DAO"
      [] err = SiteNotFound -> "Error: Site not found\n    at SiteJobRunner"
      [] OTHER -> "Error\n    at"

\* A handler that reports success whatever the job reported.
ResponseAlwaysOk(err, result) == [error |-> Undefined, result |-> TRUE]

\* The response a command handler builds from the job's (err, result).
Response(err, result) ==
    [error |-> IF err # NoError THEN Stack(err) ELSE Undefined,
     result |-> IF result THEN TRUE ELSE FALSE]

\* The job's completion callback: activateSite's cb, or the handler's,
\* which sends the response keyed to the command.
Completed(job, err, result) ==
    [job EXCEPT !.pc = "done", !.cbCalls = @ + 1, !.cbErr = err,
                !.cbResult = result]

\* CommandService.sendInResponseTo(command, response).
SendInResponseTo(c, response) ==
    IF c \in DOMAIN responses
    THEN [responses EXCEPT ![c] = Append(@, response)]
    ELSE (c :> <<response>>) @@ responses

ResponsesAfter(job, err, result) ==
    IF job.command = NoCommand THEN responses
    ELSE SendInResponseTo(job.command, Response(err, result))

\* The job loads its site: the load fails, finds nothing, or finds the
\* document, and then the write is issued.
JobLoad(j, ok) ==
    /\ j \in DOMAIN jobs
    /\ jobs[j].pc = "loading"
    /\ LET job == jobs[j]
           k == LoadByUid(sites, job.site)
       IN IF ~ok
          THEN /\ jobs' = [jobs EXCEPT ![j] = Completed(job, DbError, FALSE)]
               /\ responses' = ResponsesAfter(job, DbError, FALSE)
          ELSE IF k = 0
          THEN /\ jobs' = [jobs EXCEPT ![j] =
                              Completed(job, SiteNotFound, FALSE)]
               /\ responses' = ResponsesAfter(job, SiteNotFound, FALSE)
          ELSE /\ jobs' = [jobs EXCEPT ![j] = [job EXCEPT !.pc = "saving"]]
               /\ responses' = responses
    /\ UNCHANGED <<sites, createVars, callVars, handlers, registry, commands>>

\* The commands an initiating job broadcasts: one to every other process.
Broadcast(job) ==
    IF job.runAsInitiator
    THEN [k \in {job.id} \X (Nodes \ {job.node}) |->
             [type |-> CommandTypeOf(job.kind), site |-> job.site,
              jobId |-> job.id, from |-> job.node, to |-> k[2],
              status |-> "sent", payload |-> "object"]]
    ELSE None

\* A job that calls the Routing Registry whether or not its write succeeded.
RegistersWhatever(wrote) == TRUE

\* The job calls the Routing Registry only after its write has succeeded.
RegistersAfter(wrote) == wrote

\* The write returns: on success the Routing Registry of the job's process
\* is updated, an initiating job broadcasts its command, and the job
\* completes.
JobSave(j, ok) ==
    /\ j \in DOMAIN jobs
    /\ jobs[j].pc = "saving"
    /\ LET job == jobs[j]
           k == LoadByUid(sites, job.site)
           wrote == ok /\ k # 0
           registers == k # 0 /\ RegistersAfter(wrote)
       IN /\ registry' = IF registers
                         THEN [registry EXCEPT ![job.node] =
                                 IF TargetActive(job.kind)
                                 THEN RegActivateSite(@, sites[k])
                                 ELSE RegDeactivateSite(@, sites[k])]
                         ELSE registry
          /\ IF wrote
             THEN /\ sites' = [sites EXCEPT
                                  ![k].active = TargetActive(job.kind)]
                  /\ commands' = Broadcast(job) @@ commands
                  /\ jobs' = [jobs EXCEPT ![j] =
                         Completed([job EXCEPT !.wrote = TRUE,
                                               !.registered = registers],
                                   NoError, TRUE)]
                  /\ responses' = ResponsesAfter(job, NoError, TRUE)
             ELSE /\ jobs' = [jobs EXCEPT ![j] =
                         Completed([job EXCEPT !.registered = registers],
                                   DbError, FALSE)]
                  /\ responses' = ResponsesAfter(job, DbError, FALSE)
                  /\ UNCHANGED <<sites, commands>>
    /\ UNCHANGED <<createVars, callVars, handlers>>

\* --------------------------------------------------------------- commands
\* SiteService.init: the handler registered for each command type.
InitHandlers ==
    [t \in CommandTypes |->
        IF t = "deactivate_site" THEN "onActivateSiteCommandReceived"
        ELSE "onDeactivateSiteCommandReceived"]

\* SiteService.init() on one process.
ServiceInit(n) ==
    /\ handlers[n] = NoHandlers
    /\ handlers' = [handlers EXCEPT ![n] = InitHandlers]
    /\ UNCHANGED <<sites, createVars, callVars, registry, jobs, commands, responses>>

\* The kind of job each handler constructs.
HandlerJobKind(h) ==
    IF h = "onActivateSiteCommandReceived" THEN "activate" ELSE "deactivate"

\* A handler that runs its job as an initiator.
StartedByCommandAsInitiator(h, c) ==
    NewJob(HandlerJobKind(h), commands[c].site, commands[c].to, TRUE,
           commands[c].jobId, c)

\* onActivateSiteCommandReceived / onDeactivateSiteCommandReceived for a
\* well-formed command: the job runs as a non-initiator under the
\* command's job id.
StartedByCommand(h, c) ==
    NewJob(HandlerJobKind(h), commands[c].site, commands[c].to, FALSE,
           commands[c].jobId, c)

\* What the channel may hand to a handler: a command object, or something
\* that is no object.
PayloadKinds == {"object", "string"}

\* util.isObject(value).
IsObject(payload) == payload = "object"

\* A handler that takes whatever it is handed for a command.
HandlerDropsNothing(payload) == FALSE

\* The handlers' first test: a payload that is not an object is logged and
\* the handler returns.
HandlerDrops(payload) == ~IsObject(payload)

\* The channel delivers a command to its receiver, which runs the handler
\* registered for the command's type, if any.
DeliverCommand(c) ==
    /\ c \in DOMAIN commands
    /\ commands[c].status = "sent"
    /\ LET h == handlers[commands[c].to][commands[c].type] IN
       IF h = "none"
       THEN /\ commands' = [commands EXCEPT ![c].status = "unhandled"]
            /\ jobs' = jobs
       ELSE IF HandlerDrops(commands[c].payload)
       THEN /\ commands' = [commands EXCEPT ![c].status = "dropped"]
            /\ jobs' = jobs
       ELSE /\ commands' = [commands EXCEPT ![c].status = "handled"]
            /\ jobs' = (c :> StartedByCommand(h, c)) @@ jobs
    /\ UNCHANGED <<sites, createVars, callVars, handlers, registry, responses>>

\* A persisted, inactive site as createSite leaves it, loaded into every
\* process's Routing Registry by initSites.
SiteU1 ==
    [_id |-> 1, uid |-> "u1", displayName |-> <<"A", "b">>,
     hostname |-> <<"y">>, active |-> FALSE]

InitCluster ==
    /\ sites = <<SiteU1>>
    /\ nextUid = 1
    /\ creates = <<>>
    /\ handlers = [n \in Nodes |-> NoHandlers]
    /\ registry = [n \in Nodes |-> RegLoadSite({}, SiteU1)]
    /\ jobs = None
    /\ commands = None
    /\ responses = None
    /\ traffic = <<>>
    /\ maps = <<>>
    /\ lookups = <<>>
    /\ inits = <<>>
    /\ pages = <<>>
    /\ globals = NoGlobals
    /\ evals = NoEvals

\* The persisted site, active or not, loaded into every Routing Registry.
InitLoaded ==
    /\ \E a \in BOOLEAN :
          /\ sites = <<[SiteU1 EXCEPT !.active = a]>>
          /\ registry = [n \in Nodes |->
                            RegLoadSite({}, [SiteU1 EXCEPT !.active = a])]
    /\ nextUid = 1
    /\ creates = <<>>
    /\ handlers = [n \in Nodes |-> NoHandlers]
    /\ jobs = None
    /\ commands = None
    /\ responses = None
    /\ traffic = <<>>
    /\ maps = <<>>
    /\ lookups = <<>>
    /\ inits = <<>>
    /\ pages = <<>>
    /\ globals = NoGlobals
    /\ evals = NoEvals

NextCluster ==
    \/ \E n \in Nodes : ServiceInit(n)
    \/ \E n \in Nodes, u \in JobUids : ActivateSite(n, u)
    \/ \E n \in Nodes, u \in JobUids : DeactivateSite(n, u)
    \/ \E j \in (1..MaxJobs) \X Nodes, ok \in BOOLEAN : JobLoad(j, ok)
    \/ \E j \in (1..MaxJobs) \X Nodes, ok \in BOOLEAN : JobSave(j, ok)
    \/ \E c \in (1..MaxJobs) \X Nodes : DeliverCommand(c)

Spec == InitCluster /\ [][NextCluster]_vars

\* ----------------------------------------------------- claims: the cluster
\* C4: a job started by a command runs on the receiving process for the
\* command's site, and it is an activation job for an activate_site command
\* and a deactivation job for a deactivate_site command.
C4_CommandRunsMatchingJob ==
    \A k \in DOMAIN jobs :
        jobs[k].command # NoCommand =>
            LET cmd == commands[jobs[k].command] IN
            /\ jobs[k].site = cmd.site
            /\ jobs[k].node = cmd.to
            /\ cmd.type = "activate_site" => jobs[k].kind = "activate"
            /\ cmd.type = "deactivate_site" => jobs[k].kind = "deactivate"

\* Nothing is in flight: every job has completed and every command was
\* delivered.
Quiescent ==
    /\ \A k \in DOMAIN jobs : jobs[k].pc = "done"
    /\ \A c \in DOMAIN commands : commands[c].status # "sent"

\* C5: when one process ran the only activateSite (deactivateSite) call, for
\* an existing site, its command was handled by every peer, nothing failed
\* and nothing is in flight any more, every process's Routing Registry has
\* the site registered active (inactive).
C5_RegistriesConverge ==
    \A k \in Initiated(jobs) :
        ( /\ Initiated(jobs) = {k}
          /\ Quiescent
          /\ \A j \in DOMAIN jobs : jobs[j].cbErr = NoError
          /\ \A n \in Nodes \ {jobs[k].node} :
                 /\ <<jobs[k].id, n>> \in DOMAIN commands
                 /\ commands[<<jobs[k].id, n>>].status = "handled" )
        => \A n \in Nodes :
              \E e \in registry[n] :
                  /\ e.uid = jobs[k].site
                  /\ e.active = TargetActive(jobs[k].kind)

\* C6: once activateSite has run twice on the same existing uid on one
\* process, the second run starting after the first completed, and the
\* persistence layer failed nowhere, the site is persisted active, neither
\* callback got an error and the process's Routing Registry holds exactly
\* one entry for the site's hostname.
C6_ActivateTwice ==
    \A n \in Nodes :
        ( /\ Initiated(jobs) = {<<1, n>>, <<2, n>>}
          /\ \A k \in Initiated(jobs) :
                 /\ jobs[k].kind = "activate"
                 /\ jobs[k].site = "u1"
                 /\ jobs[k].pc = "done"
                 /\ ~jobs[k].overlap
          /\ \A j \in DOMAIN jobs : jobs[j].cbErr # DbError )
        => /\ sites[LoadByUid(sites, "u1")].active
           /\ \A k \in Initiated(jobs) : jobs[k].cbErr = NoError
           /\ Cardinality({e \in registry[n] :
                  e.hostname = sites[LoadByUid(sites, "u1")].hostname}) = 1

\* C11: a job that has called the Routing Registry for its site has had its
\* write of the active flag succeed: no job whose write is pending or has
\* failed has registered the site, and a process's registry entry for the
\* site differs from the one initSites loaded only when a job of that
\* process wrote the flag.
C11_WriteBeforeRegistry ==
    /\ \A k \in DOMAIN jobs :
          jobs[k].registered =>
              /\ jobs[k].wrote
              /\ jobs[k].pc = "done"
              /\ jobs[k].cbErr = NoError
    /\ \A n \in Nodes :
          registry[n] # RegLoadSite({}, SiteU1) =>
              \E k \in DOMAIN jobs : jobs[k].node = n /\ jobs[k].wrote

\* C11's case: one job's write failed and it left the registry alone, and
\* another job wrote the flag and registered the site as active.
C11_Witness ==
    /\ \E k \in DOMAIN jobs :
          /\ jobs[k].pc = "done" /\ jobs[k].cbErr = DbError
          /\ ~jobs[k].registered
    /\ \E k \in DOMAIN jobs :
          /\ jobs[k].kind = "activate" /\ jobs[k].wrote /\ jobs[k].registered
          /\ \E e \in registry[jobs[k].node] :
                 e.uid = jobs[k].site /\ e.active

\* The commands broadcast under a job id.
CommandsOfJob(id) == {c \in DOMAIN commands : commands[c].jobId = id}

\* C15: a job started by activateSite or deactivateSite runs as initiator; a
\* job started by a command handler does not, and its id is the command's
\* jobId.  So one local call whose write succeeded has broadcast exactly one
\* command to each peer, all from its own process, one that has not
\* succeeded has broadcast none, and no job replaying a command has
\* broadcast anything.
C15_OnlyInitiatorBroadcasts ==
    /\ \A k \in DOMAIN jobs :
          IF jobs[k].command = NoCommand
          THEN /\ jobs[k].runAsInitiator
               /\ \A c \in CommandsOfJob(jobs[k].id) :
                      commands[c].from = jobs[k].node
               /\ Cardinality(CommandsOfJob(jobs[k].id)) =
                      IF jobs[k].wrote THEN Cardinality(Nodes) - 1 ELSE 0
          ELSE /\ ~jobs[k].runAsInitiator
               /\ jobs[k].id = commands[jobs[k].command].jobId
               /\ \A c \in CommandsOfJob(jobs[k].id) :
                      commands[c].from # jobs[k].node
    /\ \A c \in DOMAIN commands :
          \E k \in DOMAIN jobs :
              /\ jobs[k].command = NoCommand
              /\ jobs[k].id = commands[c].jobId
              /\ jobs[k].node = commands[c].from

\* C15's case: a peer replayed the command of a local activation to the
\* end, its write succeeding, and the job id has one command.
C15_Witness ==
    \E k \in DOMAIN jobs :
        /\ jobs[k].command # NoCommand
        /\ jobs[k].pc = "done" /\ jobs[k].wrote
        /\ ~jobs[k].runAsInitiator
        /\ Cardinality(CommandsOfJob(jobs[k].id)) = 1

\* ------------------------------------------------------ inbound commands
\* Number of commands the channel delivers from processes outside Nodes.
MaxExternal == 2

\* The job ids other processes generate.
ExternalJobId(cs) ==
    10 + Cardinality({c \in DOMAIN cs : cs[c].from = "external"})

\* A well-formed command arrives from a process outside Nodes.
ReceiveCommand(to, type, uid) ==
    /\ ExternalJobId(commands) < 10 + MaxExternal
    /\ commands' = (<<ExternalJobId(commands), to>> :>
                       [type |-> type, site |-> uid,
                        jobId |-> ExternalJobId(commands),
                        from |-> "external", to |-> to, status |-> "sent",
                        payload |-> "object"])
                    @@ commands
    /\ UNCHANGED <<sites, createVars, callVars, handlers, registry, jobs, responses>>

\* The channel hands a handler something that is not a command object: it
\* has no site and no jobId of its own (the id is the channel's).
ReceiveMalformed(to, type, payload) ==
    /\ ExternalJobId(commands) < 10 + MaxExternal
    /\ ~IsObject(payload)
    /\ commands' = (<<ExternalJobId(commands), to>> :>
                       [type |-> type, site |-> Undefined,
                        jobId |-> ExternalJobId(commands),
                        from |-> "external", to |-> to, status |-> "sent",
                        payload |-> payload])
                    @@ commands
    /\ UNCHANGED <<sites, createVars, callVars, handlers, registry, jobs, responses>>

NextCommand ==
    \/ \E n \in Nodes : ServiceInit(n)
    \/ \E n \in Nodes, t \in CommandTypes, u \in JobUids :
          ReceiveCommand(n, t, u)
    \/ \E n \in Nodes, t \in CommandTypes, p \in PayloadKinds :
          ReceiveMalformed(n, t, p)
    \/ \E c \in (10..(10 + MaxExternal)) \X Nodes : DeliverCommand(c)
    \/ \E j \in (10..(10 + MaxExternal)) \X Nodes, ok \in BOOLEAN :
          JobLoad(j, ok)
    \/ \E j \in (10..(10 + MaxExternal)) \X Nodes, ok \in BOOLEAN :
          JobSave(j, ok)

SpecCommand == InitLoaded /\ [][NextCommand]_vars

\* The responses sent so far in response to a command.
ResponsesTo(c) == IF c \in DOMAIN responses THEN responses[c] ELSE <<>>

\* C10: a command whose handler ran gets no response while its job runs and
\* exactly one once the job's callback has fired; that response has
\* result = true iff the job's result is truthy and an error iff the job
\* reported one; for a site with no document it has an error and
\* result = false.
C10_OneResponseAfterJob ==
    \A c \in DOMAIN commands :
        /\ commands[c].status # "handled" => Len(ResponsesTo(c)) = 0
        /\ commands[c].status = "handled" =>
              \E k \in DOMAIN jobs :
                  /\ jobs[k].command = c
                  /\ jobs[k].pc # "done" => Len(ResponsesTo(c)) = 0
                  /\ jobs[k].pc = "done" =>
                        /\ Len(ResponsesTo(c)) = 1
                        /\ ResponsesTo(c)[1].result = jobs[k].cbResult
                        /\ (ResponsesTo(c)[1].error # Undefined)
                               <=> (jobs[k].cbErr # NoError)
                        /\ (commands[c].site = "nosuch"
                               /\ jobs[k].cbErr # DbError) =>
                              /\ ResponsesTo(c)[1].error = Stack(SiteNotFound)
                              /\ ResponsesTo(c)[1].result = FALSE

\* C10's case: a command for a site with no document was answered, and so
\* was a command whose job succeeded.
C10_Witness ==
    /\ \E c \in DOMAIN commands :
          /\ commands[c].site = "nosuch"
          /\ Len(ResponsesTo(c)) = 1
          /\ ResponsesTo(c)[1].error # Undefined
    /\ \E c \in DOMAIN commands :
          /\ Len(ResponsesTo(c)) = 1
          /\ ResponsesTo(c)[1].result = TRUE


\* The commands whose payload is not an object.
Malformed == {c \in DOMAIN commands : ~(commands[c].payload = "object")}

\* C14: a command payload that is not an object never has a job or a
\* response, and the step in which its handler runs changes no persisted
\* site, no Routing Registry, no job and no response.
C14_MalformedDropped ==
    /\ [](\A c \in Malformed :
            /\ commands[c].status \in {"sent", "unhandled", "dropped"}
            /\ \A k \in DOMAIN jobs : jobs[k].command # c
            /\ ResponsesTo(c) = <<>>)
    /\ [][\A c \in Malformed :
            (commands[c].status = "sent" /\ commands'[c].status # "sent") =>
                /\ sites' = sites
                /\ registry' = registry
                /\ jobs' = jobs
                /\ responses' = responses]_vars

\* C14's case: a registered handler was handed a payload that is no object
\* and dropped it, next to a command that ran a job.
C14_Witness ==
    /\ \E c \in Malformed : commands[c].status = "dropped"
    /\ \E c \in DOMAIN commands :
          commands[c].status = "handled" /\ Len(ResponsesTo(c)) = 1

\* ------------------------------------- start/stopAcceptingSiteTraffic
\* Number of startAcceptingSiteTraffic and stopAcceptingSiteTraffic calls.
MaxTraffic == 2

SiteNotActive == "Error: Site not active"
SiteNotDeactivated == "Error: Site not deactivated"

\* A startAcceptingSiteTraffic that does not look at the active flag.
StartDecisionNoActiveCheck(found, active) ==
    IF ~found THEN SiteNotFound ELSE "accept"

\* What startAcceptingSiteTraffic's load callback decides for a loaded
\* document (found, with its active flag): an error for its callback, or
\* "accept": the Routing Registry is told to activate the site.
StartDecision(found, active) ==
    IF ~found THEN SiteNotFound
    ELSE IF ~active THEN SiteNotActive
    ELSE "accept"

\* A stopAcceptingSiteTraffic that does not look at the active flag.
StopDecisionNoActiveCheck(found, active) ==
    IF ~found THEN SiteNotFound ELSE "accept"

\* The same for stopAcceptingSiteTraffic, which deactivates.
StopDecision(found, active) ==
    IF ~found THEN SiteNotFound
    ELSE IF active THEN SiteNotDeactivated
    ELSE "accept"

\* A call that persists the flag it pushes to the Routing Registry.
TrafficPersistsFlag(coll, op, k) ==
    IF k = 0 THEN coll ELSE [coll EXCEPT ![k].active = (op = "start")]

\* The site collection after the load callback has run: neither function
\* saves anything on any branch.
TrafficWrites(coll, op, k) == coll

\* The call: dao.loadByValue('uid', siteUid, 'site', ...) is issued.
TrafficCall(node, op, uid) ==
    /\ Len(traffic) < MaxTraffic
    /\ traffic' = Append(traffic,
          [op |-> op, node |-> node, uid |-> uid, pc |-> "loading",
           found |-> FALSE, loadedActive |-> FALSE,
           cbCalls |-> 0, cbErr |-> NoError, regCalls |-> 0])
    /\ UNCHANGED <<sites, createVars, clusterVars, maps, lookups, inits, pages, globals, evals>>

\* The load returns and its callback runs.  On the accepting branch the
\* Routing Registry is updated and then cb(err, result) is evaluated:
\* result is declared nowhere, so a ReferenceError is thrown and cb is not
\* called.
TrafficLoaded(i, ok) ==
    /\ i \in DOMAIN traffic
    /\ traffic[i].pc = "loading"
    /\ LET t == traffic[i]
           k == LoadByUid(sites, t.uid)
           found == k # 0
           active == IF found THEN sites[k].active ELSE FALSE
           decision == IF t.op = "start" THEN StartDecision(found, active)
                       ELSE StopDecision(found, active)
       IN /\ sites' = TrafficWrites(sites, t.op, k)
          /\ IF ~ok
             THEN /\ traffic' = [traffic EXCEPT ![i] =
                         [t EXCEPT !.pc = "done", !.cbCalls = @ + 1,
                                   !.cbErr = DbError]]
                  /\ registry' = registry
             ELSE IF decision # "accept"
             THEN /\ traffic' = [traffic EXCEPT ![i] =
                         [t EXCEPT !.pc = "done", !.found = found,
                                   !.loadedActive = active,
                                   !.cbCalls = @ + 1, !.cbErr = decision]]
                  /\ registry' = registry
             ELSE /\ traffic' = [traffic EXCEPT ![i] =
                         [t EXCEPT !.pc = "threw", !.found = found,
                                   !.loadedActive = active,
                                   !.regCalls = @ + 1]]
                  /\ registry' = [registry EXCEPT ![t.node] =
                         IF t.op = "start" THEN RegActivateSite(@, sites[k])
                         ELSE RegDeactivateSite(@, sites[k])]
    /\ UNCHANGED <<createVars, handlers, jobs, commands, responses,
                   maps, lookups, inits, pages, globals, evals>>

NextTraffic ==
    \/ \E n \in Nodes, op \in {"start", "stop"}, u \in JobUids :
          TrafficCall(n, op, u)
    \/ \E i \in 1..MaxTraffic, ok \in BOOLEAN : TrafficLoaded(i, ok)

SpecTraffic == InitLoaded /\ [][NextTraffic]_vars

\* C7: a startAcceptingSiteTraffic call whose load returned a document with
\* active = false got 'Site not active' in its callback, one whose load
\* returned no document got 'Site not found', and neither called the
\* Routing Registry.
C7_StartNeedsActiveSite ==
    \A i \in DOMAIN traffic :
        LET t == traffic[i] IN
        (t.op = "start" /\ t.pc # "loading" /\ t.cbErr # DbError) =>
            /\ (t.found /\ ~t.loadedActive) =>
                  /\ t.pc = "done" /\ t.cbCalls = 1
                  /\ t.cbErr = SiteNotActive
                  /\ t.regCalls = 0
            /\ ~t.found =>
                  /\ t.pc = "done" /\ t.cbCalls = 1
                  /\ t.cbErr = SiteNotFound
                  /\ t.regCalls = 0

\* C7's case: one call met an inactive site and another no site at all.
C7_Witness ==
    /\ \E i \in DOMAIN traffic :
          /\ traffic[i].op = "start" /\ traffic[i].pc = "done"
          /\ traffic[i].found /\ ~traffic[i].loadedActive
    /\ \E i \in DOMAIN traffic :
          /\ traffic[i].op = "start" /\ traffic[i].pc = "done"
          /\ traffic[i].cbErr = SiteNotFound

\* C16: no step of a startAcceptingSiteTraffic or stopAcceptingSiteTraffic
\* call, on any branch of its load callback, changes the site collection:
\* every persisted site and its active flag are the same after the step.
C16_TrafficNeverWrites ==
    [][traffic' # traffic => sites' = sites]_vars

\* C16's case: one call took the accepting branch and updated the Routing
\* Registry, another ended with an error for its callback, and the site is
\* persisted as it was.
C16_Witness ==
    /\ \E i \in DOMAIN traffic : traffic[i].regCalls = 1
    /\ \E i \in DOMAIN traffic :
          traffic[i].pc = "done" /\ traffic[i].cbErr # NoError
    /\ \E a \in BOOLEAN : sites = <<[SiteU1 EXCEPT !.active = a]>>

\* C17: a stopAcceptingSiteTraffic call has called the Routing Registry only
\* if its load returned a document with active = false; one whose load
\* returned a document with active = true got 'Site not deactivated' in its
\* callback and did not call the Routing Registry.
C17_StopNeedsInactiveSite ==
    \A i \in DOMAIN traffic :
        LET t == traffic[i] IN
        (t.op = "stop" /\ t.pc # "loading" /\ t.cbErr # DbError) =>
            /\ t.regCalls > 0 => (t.found /\ ~t.loadedActive)
            /\ (t.found /\ t.loadedActive) =>
                  /\ t.pc = "done" /\ t.cbCalls = 1
                  /\ t.cbErr = SiteNotDeactivated
                  /\ t.regCalls = 0
                  /\ \E e \in registry[t.node] : e.uid = t.uid /\ e.active

\* C17's case: a stop call met a site persisted and registered as active,
\* got the error and left the entry active.
C17_Witness ==
    \E i \in DOMAIN traffic :
        /\ traffic[i].op = "stop" /\ traffic[i].cbErr = SiteNotDeactivated
        /\ traffic[i].found /\ traffic[i].loadedActive
        /\ traffic[i].regCalls = 0
        /\ \E e \in registry[traffic[i].node] : e.uid = "u1" /\ e.active

\* C20: a call whose storage lookup has returned has invoked its callback
\* exactly once; on the accepting branch the Routing Registry was updated
\* and the callback got no error.
C20_CallbackOnceAfterLoad ==
    \A i \in DOMAIN traffic :
        traffic[i].pc # "loading" =>
            /\ traffic[i].cbCalls = 1
            /\ traffic[i].regCalls = 1 => traffic[i].cbErr = NoError

\* -------------------------------------------------------------- getSiteMap
\* Number of getSiteMap calls in one behaviour.
MaxMaps == 1

\* getActiveSites and getInactiveSites: the uids of the documents whose
\* active flag is the one queried.
SitesWhereActive(coll, flag) ==
    {coll[k].uid : k \in {m \in DOMAIN coll : coll[m].active = flag}}

\* getSiteMap(cb): async.series starts the first task, getActiveSites.
GetSiteMapCall ==
    /\ Len(maps) < MaxMaps
    /\ maps' = Append(maps, [pc |-> "active", active |-> {}, inactive |-> {},
                             cbCalls |-> 0, cbErr |-> NoError])
    /\ UNCHANGED <<sites, createVars, clusterVars, traffic, lookups, inits, pages, globals, evals>>

\* The active query returns; async.series then starts getInactiveSites, or
\* ends with the error.
MapActiveReturns(i, ok) ==
    /\ i \in DOMAIN maps
    /\ maps[i].pc = "active"
    /\ maps' = [maps EXCEPT ![i] =
          IF ok
          THEN [@ EXCEPT !.pc = "inactive",
                         !.active = SitesWhereActive(sites, TRUE)]
          ELSE [@ EXCEPT !.pc = "done", !.cbCalls = @ + 1,
                         !.cbErr = DbError]]
    /\ UNCHANGED <<sites, createVars, clusterVars, traffic, lookups, inits, pages, globals, evals>>

\* The inactive query returns and async.series calls cb with both results.
MapInactiveReturns(i, ok) ==
    /\ i \in DOMAIN maps
    /\ maps[i].pc = "inactive"
    /\ maps' = [maps EXCEPT ![i] =
          IF ok
          THEN [@ EXCEPT !.pc = "done", !.cbCalls = @ + 1,
                         !.inactive = SitesWhereActive(sites, FALSE)]
          ELSE [@ EXCEPT !.pc = "done", !.cbCalls = @ + 1,
                         !.cbErr = DbError]]
    /\ UNCHANGED <<sites, createVars, clusterVars, traffic, lookups, inits, pages, globals, evals>>

NextSiteMap ==
    \/ GetSiteMapCall
    \/ \E i \in 1..MaxMaps, ok \in BOOLEAN : MapActiveReturns(i, ok)
    \/ \E i \in 1..MaxMaps, ok \in BOOLEAN : MapInactiveReturns(i, ok)
    \/ \E n \in Nodes, u \in JobUids : ActivateSite(n, u)
    \/ \E n \in Nodes, u \in JobUids : DeactivateSite(n, u)
    \/ \E j \in (1..MaxJobs) \X Nodes, ok \in BOOLEAN : JobLoad(j, ok)
    \/ \E j \in (1..MaxJobs) \X Nodes, ok \in BOOLEAN : JobSave(j, ok)

SpecSiteMap == InitLoaded /\ [][NextSiteMap]_vars

\* C8: the result of a getSiteMap call whose queries both succeeded is a
\* partition of the persisted sites: each is in exactly one of result.active
\* and result.inactive.
C8_SiteMapIsPartition ==
    \A i \in DOMAIN maps :
        (maps[i].pc = "done" /\ maps[i].cbErr = NoError) =>
            \A k \in DOMAIN sites :
                (sites[k].uid \in maps[i].active)
                    # (sites[k].uid \in maps[i].inactive)

\* ---------------------------------------------------------------- getByUid
\* Number of getByUid calls in one behaviour.
MaxLookups == 2

\* pb.config.siteName and pb.config.siteRoot.
ConfigSiteName == <<"s", "i", "t", "e">>
ConfigSiteRoot == <<"h", ":", "/", "/", "r">>

\* The uids callers pass to getByUid.
LookupUids == {Undefined, Null, EmptyString, GLOBAL_SITE, "u1", "nosuch"}

\* The record getByUid synthesizes for the global site.
GlobalRecord ==
    [displayName |-> ConfigSiteName, hostname |-> ConfigSiteRoot,
     uid |-> GLOBAL_SITE]

\* No record: the callback's result when nothing was loaded.
NoRecord == [displayName |-> <<>>, hostname |-> <<>>, uid |-> Null]

\* The fields of a loaded document the model follows.
RecordOf(doc) ==
    [displayName |-> doc.displayName, hostname |-> doc.hostname,
     uid |-> doc.uid]

\* A test that takes only 'global' itself for the global site.
IsGlobalUidStrict(uid) == uid = GLOBAL_SITE

\* getByUid's test for the synthesized record: !uid || uid === GLOBAL_SITE.
IsGlobalUid(uid) == IsFalsy(uid) \/ uid = GLOBAL_SITE

\* getByUid(uid, cb): the global record is handed to cb at once; any other
\* uid issues dao.loadByValues({uid: uid}, 'site', cb).
GetByUidCall(uid) ==
    /\ Len(lookups) < MaxLookups
    /\ lookups' = Append(lookups,
          IF IsGlobalUid(uid)
          THEN [uid |-> uid, pc |-> "done", reads |-> 0, cbCalls |-> 1,
                cbErr |-> NoError, cbResult |-> GlobalRecord]
          ELSE [uid |-> uid, pc |-> "loading", reads |-> 1, cbCalls |-> 0,
                cbErr |-> NoError, cbResult |-> NoRecord])
    /\ UNCHANGED <<sites, createVars, clusterVars, traffic, maps, inits, pages, globals, evals>>

\* dao.loadByValues returns: cb gets the error, the document or null.
GetByUidLoaded(i, ok) ==
    /\ i \in DOMAIN lookups
    /\ lookups[i].pc = "loading"
    /\ LET k == LoadByUid(sites, lookups[i].uid) IN
       lookups' = [lookups EXCEPT ![i] =
          [@ EXCEPT !.pc = "done", !.cbCalls = @ + 1,
                    !.cbErr = IF ok THEN NoError ELSE DbError,
                    !.cbResult = IF ok /\ k # 0 THEN RecordOf(sites[k])
                                 ELSE NoRecord]]
    /\ UNCHANGED <<sites, createVars, clusterVars, traffic, maps, inits, pages, globals, evals>>

NextGetByUid ==
    \/ \E u \in LookupUids : GetByUidCall(u)
    \/ \E i \in 1..MaxLookups, ok \in BOOLEAN : GetByUidLoaded(i, ok)

SpecGetByUid == InitLoaded /\ [][NextGetByUid]_vars

\* C9: a getByUid call with a falsy uid or 'global' has called back once,
\* with no error and the synthesized global record, and read nothing from
\* storage; a call with any other uid made exactly one storage lookup.
C9_GlobalNeverReadsStorage ==
    \A i \in DOMAIN lookups :
        LET l == lookups[i] IN
        IF l.uid \in {Undefined, Null, EmptyString, GLOBAL_SITE}
        THEN /\ l.pc = "done" /\ l.cbCalls = 1 /\ l.cbErr = NoError
             /\ l.cbResult = [displayName |-> ConfigSiteName,
                              hostname |-> ConfigSiteRoot,
                              uid |-> "global"]
             /\ l.reads = 0
        ELSE l.reads = 1

\* C9's case: an empty uid and a site's uid were both looked up.
C9_Witness ==
    /\ \E i \in DOMAIN lookups :
          lookups[i].uid = EmptyString /\ lookups[i].reads = 0
    /\ \E i \in DOMAIN lookups :
          /\ lookups[i].uid = "u1" /\ lookups[i].pc = "done"
          /\ lookups[i].cbResult.uid = "u1"

\* --------------------------------------------------------------- initSites
\* Number of initSites calls in one behaviour.
MaxInits == 2

\* pb.config.multisite.globalRoot: not configured (undefined or '', both
\* falsy), or a URL.
GlobalRootUnset == <<>>
GlobalRoots == {GlobalRootUnset, <<"h", ":", "/", "/", "g", "/">>}

\* The error initSites raises when multisite is on with no global root.
NoGlobalHostname ==
    "Error: A Global Hostname must be configured with multisite turned on."

\* The least element of a non-empty set of naturals.
Least(S) == CHOOSE i \in S : \A m \in S : i <= m

\* url.parse(u).host: what follows "://" up to the next "/"; no host (the
\* empty sequence stands for null) when u has no "://".
UrlHost(u) ==
    LET starts == {i \in 1..Len(u) :
                      /\ i + 2 <= Len(u)
                      /\ u[i] = ":" /\ u[i + 1] = "/" /\ u[i + 2] = "/"}
    IN IF starts = {} THEN <<>>
       ELSE LET b == Least(starts) + 3
                ends == {i \in b..Len(u) : u[i] = "/"}
                e == IF ends = {} THEN Len(u) ELSE Least(ends) - 1
            IN SubSeq(u, b, e)

\* What RequestHandler.loadSite keeps of the site it is given.
EntryOf(site) ==
    [uid |-> site.uid, hostname |-> site.hostname, active |-> site.active]

\* The entry initSites synthesizes for the global site.
GlobalEntry(enabled, globalRoot) ==
    [uid |-> GLOBAL_SITE,
     hostname |-> IF enabled THEN UrlHost(globalRoot)
                  ELSE UrlHost(ConfigSiteRoot),
     active |-> IF enabled THEN FALSE ELSE TRUE]

\* An initSites that never refuses to start.
FailsFastNever(enabled, globalRoot) == FALSE

\* initSites' first test: multisite enabled and no globalRoot.
FailsFast(enabled, globalRoot) == enabled /\ globalRoot = GlobalRootUnset

\* An initSites that loads only the active sites.
ActiveSitesOnly(results) ==
    SelectSeq([k \in DOMAIN results |-> EntryOf(results[k])],
              LAMBDA e : e.active)

\* util.forEach(results, ...): loadSite is called for each site of the
\* query's result, in order.
SitesToLoad(results) == [k \in DOMAIN results |-> EntryOf(results[k])]

\* The Routing Registry after loadSite was called for each entry in turn.
RECURSIVE LoadAll(_, _)
LoadAll(reg, entries) ==
    IF entries = <<>> THEN reg
    ELSE LoadAll(RegLoadSite(reg, Head(entries)), Tail(entries))

\* initSites(cb): the configuration error is handed to cb at once;
\* otherwise getAllSites issues its query.
InitSitesCall(node, enabled, globalRoot) ==
    /\ Len(inits) < MaxInits
    /\ inits' = Append(inits,
          IF FailsFast(enabled, globalRoot)
          THEN [node |-> node, enabled |-> enabled,
                globalRoot |-> globalRoot, pc |-> "done", reads |-> 0,
                cbCalls |-> 1, cbErr |-> NoGlobalHostname,
                cbResult |-> "false", loads |-> <<>>, loadsAtCb |-> 0,
                queried |-> 0]
          ELSE [node |-> node, enabled |-> enabled,
                globalRoot |-> globalRoot, pc |-> "querying", reads |-> 1,
                cbCalls |-> 0, cbErr |-> NoError, cbResult |-> Undefined,
                loads |-> <<>>, loadsAtCb |-> 0, queried |-> 0])
    /\ UNCHANGED <<sites, createVars, clusterVars, traffic, maps, lookups,
                   pages, globals, evals>>

\* getAllSites returns: cb(err) on an error; otherwise every site of the
\* result is loaded, then the global entry, then cb(err, true).
InitSitesLoaded(i, ok) ==
    /\ i \in DOMAIN inits
    /\ inits[i].pc = "querying"
    /\ LET c == inits[i]
           loads == Append(SitesToLoad(sites),
                           GlobalEntry(c.enabled, c.globalRoot))
       IN IF ~ok
          THEN /\ inits' = [inits EXCEPT ![i] =
                      [c EXCEPT !.pc = "done", !.cbCalls = @ + 1,
                                !.cbErr = DbError]]
               /\ registry' = registry
          ELSE /\ inits' = [inits EXCEPT ![i] =
                      [c EXCEPT !.pc = "done", !.loads = loads,
                                !.loadsAtCb = Len(loads),
                                !.queried = Len(sites),
                                !.cbCalls = @ + 1, !.cbErr = NoError,
                                !.cbResult = "true"]]
               /\ registry' = [registry EXCEPT ![c.node] = LoadAll(@, loads)]
    /\ UNCHANGED <<sites, createVars, handlers, jobs, commands, responses,
                   traffic, maps, lookups, pages, globals, evals>>

\* A second persisted site, active.
SiteU2 ==
    [_id |-> 2, uid |-> "u2", displayName |-> <<"b">>,
     hostname |-> <<"X">>, active |-> TRUE]

\* The site collections a process may find at start.
BootCollections == { <<>>, <<SiteU1>>, <<SiteU1, SiteU2>>,
                     <<[SiteU1 EXCEPT !.active = TRUE], SiteU2>> }

\* Process start: nothing loaded into any Routing Registry yet.
InitBoot ==
    /\ sites \in BootCollections
    /\ nextUid = Len(sites)
    /\ creates = <<>>
    /\ handlers = [n \in Nodes |-> NoHandlers]
    /\ registry = [n \in Nodes |-> {}]
    /\ jobs = None
    /\ commands = None
    /\ responses = None
    /\ traffic = <<>>
    /\ maps = <<>>
    /\ lookups = <<>>
    /\ inits = <<>>
    /\ pages = <<>>
    /\ globals = NoGlobals
    /\ evals = NoEvals

NextInitSites ==
    \/ \E n \in Nodes, en \in BOOLEAN, root \in GlobalRoots :
          InitSitesCall(n, en, root)
    \/ \E i \in 1..MaxInits, ok \in BOOLEAN : InitSitesLoaded(i, ok)

SpecInitSites == InitBoot /\ [][NextInitSites]_vars

\* C12: an initSites call made with multisite enabled and no globalRoot has
\* called back exactly once, with the configuration error and false, has
\* issued no site query and has called loadSite for nothing; a process all
\* of whose initSites calls were such has an empty Routing Registry.
C12_FailsFastWithoutGlobalRoot ==
    /\ \A i \in DOMAIN inits :
          (inits[i].enabled /\ inits[i].globalRoot = <<>>) =>
              /\ inits[i].pc = "done"
              /\ inits[i].cbCalls = 1
              /\ inits[i].cbErr = NoGlobalHostname
              /\ inits[i].cbResult = "false"
              /\ inits[i].reads = 0
              /\ inits[i].loads = <<>>
    /\ \A n \in Nodes :
          (\A i \in DOMAIN inits :
               inits[i].node = n =>
                   (inits[i].enabled /\ inits[i].globalRoot = <<>>))
              => registry[n] = {}

\* C12's case: one process refused to start over a non-empty collection
\* while the other loaded its sites.
C12_Witness ==
    /\ Len(sites) > 0
    /\ \E i \in DOMAIN inits :
          /\ inits[i].enabled /\ inits[i].globalRoot = <<>>
          /\ inits[i].cbErr = NoGlobalHostname
          /\ registry[inits[i].node] = {}
    /\ \E i \in DOMAIN inits : inits[i].cbResult = "true"

\* The number of loadSite calls a call made for a uid.
LoadsOfUid(c, uid) ==
    Cardinality({k \in DOMAIN c.loads : c.loads[k].uid = uid})

\* C13: an initSites call that called back with true has, before the
\* callback, called loadSite once for every persisted site, active or not,
\* and once for an entry with uid 'global', and called back once with no
\* error; a call whose site query failed called back once with the error
\* and never called loadSite.
C13_LoadsEverySiteAndGlobal ==
    \A i \in DOMAIN inits :
        LET c == inits[i] IN
        /\ c.cbResult = "true" =>
              /\ \A k \in DOMAIN sites : LoadsOfUid(c, sites[k].uid) = 1
              /\ LoadsOfUid(c, "global") = 1
              /\ Len(c.loads) = Len(sites) + 1
              /\ c.loadsAtCb = Len(c.loads)
              /\ c.cbCalls = 1 /\ c.cbErr = NoError
        /\ (c.pc = "done" /\ c.reads = 1 /\ c.cbResult # "true") =>
              /\ c.cbCalls = 1 /\ c.cbErr = DbError
              /\ c.loads = <<>>
        /\ c.pc = "querying" => (c.cbCalls = 0 /\ c.loads = <<>>)

\* C13's case: a call loaded an inactive site, an active one and the global
\* entry, and another call's query failed.
C13_Witness ==
    /\ \E i \in DOMAIN inits :
          /\ inits[i].cbResult = "true"
          /\ \E k \in DOMAIN inits[i].loads : ~inits[i].loads[k].active
                                              /\ inits[i].loads[k].uid = "u1"
          /\ \E k \in DOMAIN inits[i].loads : inits[i].loads[k].uid = "u2"
          /\ \E e \in registry[inits[i].node] : e.uid = "global"
    /\ \E i \in DOMAIN inits : inits[i].cbErr = DbError

\* ------------------------------------------- the new-article controller
\* Number of new-article requests in one behaviour.
MaxPages == 2

\* The sessions getSession may hand back: no user, a user without the
\* admin flag, an admin.
SessionKinds == {"nouser", "user", "admin"}

\* !session['user'] || !session['user']['admin']
NotAdmin(session) == session # "admin"

\* The placeholders of the page.
TemplateOptionsKey == "^template_options^"
SectionOptionsKey == "^section_options^"
ErrorSuccessKey == "^error_success^"
LocKey == "^loc_NEW_ARTICLE^"

\* getHTMLTemplate's data for the three templates: text is a sequence of
\* pieces, a placeholder being one piece.
PageTemplate ==
    <<LocKey, ErrorSuccessKey, "<select>", TemplateOptionsKey, "</select>",
      "<ul>", SectionOptionsKey, "</ul>">>
SectionTemplate == <<"<li>", "^section_id^", "^section_name^">>
SubsectionTemplate == <<"<dd>", "^subsection_id^", "^subsection_name^">>

\* A substitution that leaves the text as it is.
SubstituteNothing(text, key, value) == text

\* text.split(key).join(value): every occurrence of key is replaced by
\* value.
RECURSIVE Substitute(_, _, _)
Substitute(text, key, value) ==
    IF text = <<>> THEN <<>>
    ELSE (IF Head(text) = key THEN value ELSE <<Head(text)>>)
             \o Substitute(Tail(text), key, value)

\* Whether a placeholder is still in the text.
Contains(text, key) == \E k \in DOMAIN text : text[k] = key

\* fs.readdir's listing of the theme's controllers: a file name is a
\* sequence of pieces.
ThemeDirectory == << <<"index", ".js">>, <<"readme", ".md">> >>

\* name.indexOf('.js'), counted from 1; 0 when there is none.
IndexOfJs(name) ==
    IF \E k \in DOMAIN name : name[k] = ".js"
    THEN Least({k \in DOMAIN name : name[k] = ".js"})
    ELSE 0

\* The readdir callback's loop: the part before '.js' of every file name
\* that has one is pushed to availableTemplates.
RECURSIVE PushTemplateFiles(_, _)
PushTemplateFiles(available, directory) ==
    IF directory = <<>> THEN available
    ELSE PushTemplateFiles(
             IF IndexOfJs(Head(directory)) > 0
             THEN Append(available,
                         SubSeq(Head(directory), 1,
                                IndexOfJs(Head(directory)) - 1))
             ELSE available,
             Tail(directory))

\* What fs.readFile of details.json may give: an error, text JSON.parse
\* rejects, or the theme's details.
DetailsKinds == {"error", "malformed", "valid"}

\* details.content_templates of a readable details.json.
ContentTemplates ==
    << [file |-> <<"index">>, name |-> "Default"],
       [file |-> <<"other">>, name |-> "Other"] >>

\* The inner loop: one option per entry of availableTemplates equal to the
\* content template's file.
RECURSIVE OptionsFor(_, _)
OptionsFor(template, available) ==
    IF available = <<>> THEN <<>>
    ELSE (IF template.file = Head(available)
          THEN <<"<option>">> \o template.file \o <<template.name>>
          ELSE <<>>)
             \o OptionsFor(template, Tail(available))

\* The outer loop over details.content_templates, appending to
\* templatesList.
RECURSIVE ConcatOptions(_, _, _)
ConcatOptions(list, templates, available) ==
    IF templates = <<>> THEN list
    ELSE ConcatOptions(list \o OptionsFor(Head(templates), available),
                       Tail(templates), available)

\* The section objects the query may return, ordered by name.
SectionData ==
    { <<>>,
      << [_id |-> "s1", name |-> "News", parent |-> Null],
         [_id |-> "s2", name |-> "Sport", parent |-> "s1"] >> }

\* getSectionOptions' loop: a section fills the section template, a
\* subsection the subsection template.
RECURSIVE SectionsList(_)
SectionsList(data) ==
    IF data = <<>> THEN <<>>
    ELSE (IF IsFalsy(Head(data).parent)
          THEN Substitute(Substitute(SectionTemplate, "^section_id^",
                                     <<Head(data)._id>>),
                          "^section_name^", <<Head(data).name>>)
          ELSE Substitute(Substitute(SubsectionTemplate, "^subsection_id^",
                                     <<Head(data)._id>>),
                          "^subsection_name^", <<Head(data).name>>))
             \o SectionsList(Tail(data))

\* displayErrorOrSuccess(session, result, cb): the session's message, none
\* here, takes the place of its placeholder.
DisplayErrorOrSuccess(text) == Substitute(text, ErrorSuccessKey, <<>>)

\* localize(['admin', 'articles'], result).
Localize(text) == Substitute(text, LocKey, <<"New article">>)

\* init(request, output): getSession is issued.
PageInit(session) ==
    /\ Len(pages) < MaxPages
    /\ pages' = Append(pages,
          [session |-> session, pc |-> "session", result |-> <<>>,
           outputs |-> <<>>, templateLoads |-> 0, dbQueries |-> 0,
           sessionEdits |-> 0, log |-> <<>>])
    /\ UNCHANGED <<sites, createVars, clusterVars, traffic, maps, lookups,
                   inits, globals, evals>>

\* getSession's callback: output({content: ''}) for a session that is not
\* an admin's; otherwise initLocalization is issued.
PageSession(i) ==
    /\ i \in DOMAIN pages
    /\ pages[i].pc = "session"
    /\ pages' = [pages EXCEPT ![i] =
          IF NotAdmin(@.session)
          THEN [@ EXCEPT !.pc = "done", !.outputs = Append(@, <<>>),
                         !.log = Append(@, "output")]
          ELSE [@ EXCEPT !.pc = "localization"]]
    /\ UNCHANGED <<sites, createVars, clusterVars, traffic, maps, lookups,
                   inits, globals, evals>>

\* initLocalization's callback: getHTMLTemplate is issued for the page.
PageLocalized(i) ==
    /\ i \in DOMAIN pages
    /\ pages[i].pc = "localization"
    /\ pages' = [pages EXCEPT ![i] =
          [@ EXCEPT !.pc = "template", !.templateLoads = @ + 1]]
    /\ UNCHANGED <<sites, createVars, clusterVars, traffic, maps, lookups,
                   inits, globals, evals>>

\* The page template arrives: result takes it, and getTemplateOptions
\* resets the two globals and queries the active theme.
PageTemplateLoaded(i) ==
    /\ i \in DOMAIN pages
    /\ pages[i].pc = "template"
    /\ pages' = [pages EXCEPT ![i] =
          [@ EXCEPT !.pc = "theme", !.result = @ \o PageTemplate,
                    !.dbQueries = @ + 1,
                    !.log = Append(@, "getTemplateOptions")]]
    /\ globals' = [availableTemplates |-> <<>>, templatesList |-> <<>>]
    /\ UNCHANGED <<sites, createVars, clusterVars, traffic, maps, lookups,
                   inits, evals>>

\* getTemplateOptions hands its list to init's callback, which substitutes
\* it into the page and calls getSectionOptions, whose first step issues
\* getHTMLTemplate for the section template.
TemplateOptionsDone(r, list) ==
    [r EXCEPT !.result = Substitute(@, TemplateOptionsKey, list),
              !.log = @ \o <<"templateOptionsSubstituted",
                             "getSectionOptions">>,
              !.templateLoads = @ + 1,
              !.pc = "sectionTemplate"]

\* The active-theme query returns: with a setting fs.readdir is issued,
\* with none the list is ''.
PageTheme(i, hasTheme) ==
    /\ i \in DOMAIN pages
    /\ pages[i].pc = "theme"
    /\ pages' = [pages EXCEPT ![i] =
          IF hasTheme THEN [@ EXCEPT !.pc = "readdir"]
          ELSE TemplateOptionsDone(@, <<>>)]
    /\ UNCHANGED <<sites, createVars, clusterVars, traffic, maps, lookups,
                   inits, globals, evals>>

\* fs.readdir returns: the template files are pushed to the global
\* availableTemplates (nothing is, on an error), and fs.readFile is issued.
PageReaddir(i, ok) ==
    /\ i \in DOMAIN pages
    /\ pages[i].pc = "readdir"
    /\ pages' = [pages EXCEPT ![i] = [@ EXCEPT !.pc = "readfile"]]
    /\ globals' = [globals EXCEPT !.availableTemplates =
          IF ok THEN PushTemplateFiles(@, ThemeDirectory) ELSE @]
    /\ UNCHANGED <<sites, createVars, clusterVars, traffic, maps, lookups,
                   inits, evals>>

\* fs.readFile returns: '' on an error; JSON.parse throws on text it
\* rejects; otherwise the options are appended to the global templatesList,
\* which is handed on.
PageReadFile(i, kind) ==
    /\ i \in DOMAIN pages
    /\ pages[i].pc = "readfile"
    /\ LET list == ConcatOptions(globals.templatesList, ContentTemplates,
                                 globals.availableTemplates)
       IN CASE kind = "error" ->
                 /\ pages' = [pages EXCEPT ![i] = TemplateOptionsDone(@, <<>>)]
                 /\ globals' = globals
            [] kind = "malformed" ->
                 /\ pages' = [pages EXCEPT ![i] = [@ EXCEPT !.pc = "threw"]]
                 /\ globals' = globals
            [] OTHER ->
                 /\ pages' = [pages EXCEPT ![i] = TemplateOptionsDone(@, list)]
                 /\ globals' = [globals EXCEPT !.templatesList = list]
    /\ UNCHANGED <<sites, createVars, clusterVars, traffic, maps, lookups,
                   inits, evals>>

\* The section template arrives: the subsection template is requested.
PageSectionTemplate(i) ==
    /\ i \in DOMAIN pages
    /\ pages[i].pc = "sectionTemplate"
    /\ pages' = [pages EXCEPT ![i] =
          [@ EXCEPT !.pc = "subsectionTemplate", !.templateLoads = @ + 1]]
    /\ UNCHANGED <<sites, createVars, clusterVars, traffic, maps, lookups,
                   inits, globals, evals>>

\* The subsection template arrives: the sections are queried.
PageSubsectionTemplate(i) ==
    /\ i \in DOMAIN pages
    /\ pages[i].pc = "subsectionTemplate"
    /\ pages' = [pages EXCEPT ![i] =
          [@ EXCEPT !.pc = "sections", !.dbQueries = @ + 1]]
    /\ UNCHANGED <<sites, createVars, clusterVars, traffic, maps, lookups,
                   inits, globals, evals>>

\* The sections arrive: getSectionOptions hands its list to init's
\* callback, which substitutes it and calls displayErrorOrSuccess.
PageSections(i, data) ==
    /\ i \in DOMAIN pages
    /\ pages[i].pc = "sections"
    /\ pages' = [pages EXCEPT ![i] =
          [@ EXCEPT !.pc = "display",
                    !.result = Substitute(@, SectionOptionsKey,
                                          SectionsList(data)),
                    !.log = Append(@, "sectionOptionsSubstituted")]]
    /\ UNCHANGED <<sites, createVars, clusterVars, traffic, maps, lookups,
                   inits, globals, evals>>

\* displayErrorOrSuccess calls back: editSession is issued.
PageDisplayed(i) ==
    /\ i \in DOMAIN pages
    /\ pages[i].pc = "display"
    /\ pages' = [pages EXCEPT ![i] =
          [@ EXCEPT !.pc = "edit", !.result = DisplayErrorOrSuccess(@),
                    !.sessionEdits = @ + 1]]
    /\ UNCHANGED <<sites, createVars, clusterVars, traffic, maps, lookups,
                   inits, globals, evals>>

\* editSession calls back: the localized page is handed to output.
PageEdited(i) ==
    /\ i \in DOMAIN pages
    /\ pages[i].pc = "edit"
    /\ pages' = [pages EXCEPT ![i] =
          [@ EXCEPT !.pc = "done",
                    !.outputs = Append(@, Localize(pages[i].result)),
                    !.log = Append(@, "output")]]
    /\ UNCHANGED <<sites, createVars, clusterVars, traffic, maps, lookups,
                   inits, globals, evals>>

NextPage ==
    \/ \E session \in SessionKinds : PageInit(session)
    \/ \E i \in 1..MaxPages : PageSession(i)
    \/ \E i \in 1..MaxPages : PageLocalized(i)
    \/ \E i \in 1..MaxPages : PageTemplateLoaded(i)
    \/ \E i \in 1..MaxPages, hasTheme \in BOOLEAN : PageTheme(i, hasTheme)
    \/ \E i \in 1..MaxPages, ok \in BOOLEAN : PageReaddir(i, ok)
    \/ \E i \in 1..MaxPages, kind \in DetailsKinds : PageReadFile(i, kind)
    \/ \E i \in 1..MaxPages : PageSectionTemplate(i)
    \/ \E i \in 1..MaxPages : PageSubsectionTemplate(i)
    \/ \E i \in 1..MaxPages, data \in SectionData : PageSections(i, data)
    \/ \E i \in 1..MaxPages : PageDisplayed(i)
    \/ \E i \in 1..MaxPages : PageEdited(i)

SpecPage == InitCreate /\ [][NextPage]_vars

\* The place of the first occurrence of a step in a request's log; 0 when
\* the step has not happened.
StepAt(log, step) ==
    IF \E k \in DOMAIN log : log[k] = step
    THEN Least({k \in DOMAIN log : log[k] = step})
    ELSE 0

\* C19: in every new-article request, once section options have been
\* requested the template options were requested and substituted before, and
\* the page no longer holds their placeholder; once an admin's page has been
\* handed to output both substitutions were made before, and the page holds
\* neither placeholder.
C19_TemplateOptionsBeforeSectionOptions ==
    \A i \in DOMAIN pages :
        LET r == pages[i] IN
        /\ StepAt(r.log, "getSectionOptions") > 0 =>
              /\ StepAt(r.log, "getTemplateOptions") > 0
              /\ StepAt(r.log, "getTemplateOptions")
                     < StepAt(r.log, "templateOptionsSubstituted")
              /\ StepAt(r.log, "templateOptionsSubstituted")
                     < StepAt(r.log, "getSectionOptions")
              /\ ~Contains(r.result, TemplateOptionsKey)
        /\ StepAt(r.log, "sectionOptionsSubstituted") > 0 =>
              /\ StepAt(r.log, "getSectionOptions")
                     < StepAt(r.log, "sectionOptionsSubstituted")
              /\ ~Contains(r.result, SectionOptionsKey)
        /\ (r.session = "admin" /\ r.outputs # <<>>) =>
              /\ StepAt(r.log, "templateOptionsSubstituted") > 0
              /\ StepAt(r.log, "sectionOptionsSubstituted")
                     < StepAt(r.log, "output")
              /\ \A k \in DOMAIN r.outputs :
                     /\ ~Contains(r.outputs[k], TemplateOptionsKey)
                     /\ ~Contains(r.outputs[k], SectionOptionsKey)

\* C19's case: an admin's page was handed to output with a template option
\* and a section in it.
C19_Witness ==
    \E i \in DOMAIN pages :
        /\ pages[i].session = "admin"
        /\ Len(pages[i].outputs) = 1
        /\ Contains(pages[i].outputs[1], "<option>")
        /\ Contains(pages[i].outputs[1], "News")

\* C22: a request whose session has no user, or a user without the admin
\* flag, has, once getSession called back, called output exactly once with
\* empty content and loaded no template, queried nothing and edited no
\* session; an admin's request never calls output twice, calls it only after
\* its session edit has completed, and has called it exactly once when its
\* chain of callbacks has ended.
C22_OutputExactlyOnce ==
    \A i \in DOMAIN pages :
        LET r == pages[i] IN
        IF r.session # "admin"
        THEN /\ r.templateLoads = 0 /\ r.dbQueries = 0 /\ r.sessionEdits = 0
             /\ r.pc # "session" => (r.pc = "done" /\ r.outputs = << <<>> >>)
             /\ r.pc = "session" => r.outputs = <<>>
        ELSE /\ Len(r.outputs) <= 1
             /\ r.outputs # <<>> => (r.pc = "done" /\ r.sessionEdits = 1)
             /\ r.pc \in {"done", "threw"} => Len(r.outputs) = 1

\* ------------------------------------------------- site id comparison
\* Number of areEqual and getCurrentSite calls in one behaviour.
MaxEvals == 3

\* The site ids callers pass: the falsy ones, 'global' and two sites' uids.
SiteIds == {Undefined, Null, EmptyString, GLOBAL_SITE, "u1", "u2"}

\* SiteService.isGlobal(siteid): !siteid || siteid === GLOBAL_SITE.
isGlobal(siteid) == IsFalsy(siteid) \/ siteid = GLOBAL_SITE

\* A comparison with no class for the global site.
areEqualStrict(siteA, siteB) == siteA = siteB

\* SiteService.areEqual(siteA, siteB).
areEqual(siteA, siteB) ==
    IF isGlobal(siteA) /\ isGlobal(siteB) THEN TRUE
    ELSE siteA = siteB

\* SiteService.getCurrentSite(siteid): siteid || GLOBAL_SITE.
getCurrentSite(siteid) == IF IsFalsy(siteid) THEN GLOBAL_SITE ELSE siteid

\* The number of calls made so far.
EvalCount == Cardinality(evals.equal) + Cardinality(evals.current)

\* A caller evaluates areEqual(a, b).
AreEqualCall(a, b) ==
    /\ EvalCount < MaxEvals
    /\ <<a, b, areEqual(a, b)>> \notin evals.equal
    /\ evals' = [evals EXCEPT !.equal = @ \cup {<<a, b, areEqual(a, b)>>}]
    /\ UNCHANGED <<sites, createVars, clusterVars, traffic, maps, lookups,
                   inits, pages, globals>>

\* A caller evaluates getCurrentSite(a).
GetCurrentSiteCall(a) ==
    /\ EvalCount < MaxEvals
    /\ <<a, getCurrentSite(a)>> \notin evals.current
    /\ evals' = [evals EXCEPT !.current = @ \cup {<<a, getCurrentSite(a)>>}]
    /\ UNCHANGED <<sites, createVars, clusterVars, traffic, maps, lookups,
                   inits, pages, globals>>

NextEvals ==
    \/ \E a, b \in SiteIds : AreEqualCall(a, b)
    \/ \E a \in SiteIds : GetCurrentSiteCall(a)

SpecEvals == InitCreate /\ [][NextEvals]_vars

\* The ids of the global class: the falsy ids and 'global'.
GlobalClass == {"<undefined>", "<null>", "", "global"}

\* C21: over the calls made, areEqual is reflexive, symmetric and
\* transitive; it is true exactly for two ids of the global class (a falsy
\* id or 'global') and for an id with itself; getCurrentSite gives the same
\* id when applied to its own result, and areEqual(getCurrentSite(x), x) is
\* true.
C21_AreEqualIsEquivalence ==
    /\ \A e \in evals.equal :
          /\ e[1] = e[2] => e[3]
          /\ e[3] <=> ((e[1] \in GlobalClass /\ e[2] \in GlobalClass)
                          \/ e[1] = e[2])
          /\ \A f \in evals.equal :
                /\ (f[1] = e[2] /\ f[2] = e[1]) => f[3] = e[3]
                /\ (e[3] /\ f[3] /\ f[1] = e[2]) =>
                      \A g \in evals.equal :
                          (g[1] = e[1] /\ g[2] = f[2]) => g[3]
    /\ \A c \in evals.current :
          /\ \A d \in evals.current : d[1] = c[2] => d[2] = c[2]
          /\ \A e \in evals.equal :
                (e[1] = c[2] /\ e[2] = c[1]) => e[3]

\* C21's case: a chain of three comparisons through the global class was
\* evaluated, one of them between two different ids.
C21_Witness ==
    /\ <<"", "global", TRUE>> \in evals.equal
    /\ <<"global", "<null>", TRUE>> \in evals.equal
    /\ <<"", "<null>", TRUE>> \in evals.equal

====
